---- MODULE Spec2Model ----
(***************************************************************************)
(* Model of the stop-to-vehicle-position matching, arrival-time repair and *)
(* speed code of scripts/neighbor.py, scripts/utils.py,                    *)
(* scripts/create_table.py and scripts/partridge_gtfs_wrangling.py.        *)
(*                                                                         *)
(* The pipeline is a batch of pure table transformations, so the module    *)
(* holds one specification per stage:                                      *)
(*   SpecClassify  utils.cardinal_definition_rules on a displacement       *)
(*   SpecNeighbor  neighbor.two_nearest_neighbor_near_stop on one trip's   *)
(*                 vehicle positions (vp) and one stop                     *)
(*   SpecInterp    neighbor.interpolate_stop_arrival_time on one stop      *)
(*                 position and one reference curve                        *)
(*   SpecRepair    neighbor.enforce_monotonicity_and_interpolate_across_   *)
(*                 stops on a batch of stop rows of one or two trips       *)
(*   SpecScenario  the same repair on the trip with arrival seconds        *)
(*                 100, 200, 150, 400                                      *)
(*   SpecReinterpolate  neighbor.stop_and_arrival_time_arrays_by_trip on   *)
(*                 one fully populated trip                                *)
(*   SpecSpeed     neighbor.calculate_speed_from_stop_arrivals on a batch  *)
(*                 of stop rows of one or two trips                        *)
(*   SpecSpeedScenario  the same on the trip with stops at 0, 500, 1200 m  *)
(*   SpecTables    create_table.vp_projected_table on a vp file, and the   *)
(*                 direction of travel of the stops of a stop_times file   *)
(*   SpecMonotonicTrips  utils.monotonic_trips on a table of stop rows     *)
(* Coordinates, meters and seconds are integers.  Arrays keep numpy's      *)
(* 0-based positions wherever a position is a value (nearest-neighbour     *)
(* indices); TLA+ sequences are 1-based, so array[i] is written arr[i+1].  *)
(***************************************************************************)
EXTENDS Integers, Sequences, FiniteSets, TLC

VARIABLES
    distance_east,      \* argument of cardinal_definition_rules
    distance_north,     \* argument of cardinal_definition_rules
    cardinal,           \* its result, NoResult before the call
    vp_geometry,        \* one trip's vp coordinates, in vp_idx order
    vp_direction_array, \* vp_primary_direction of each vp
    vp_idx_array,       \* vp_idx of each vp
    nn,                 \* the call of two_nearest_neighbor_near_stop: arguments, locals, result
    df,                 \* the batch of stop rows handed to the repair, in row order
    repair,             \* the repair's column of seconds, its flags and its output
    interp,             \* arguments and result of interpolate_stop_arrival_time
    reinterp,           \* the result of stop_and_arrival_time_arrays_by_trip called on df
    speed,              \* the result of calculate_speed_from_stop_arrivals called on df
    vp,                 \* the vp rows read by vp_projected_table, in file order
    trips_to_shape,     \* the trips that have a shape
    stop_times,         \* the stop rows handed to the direction of travel, in file order
    gdf,                \* the table built from vp or from stop_times
    stops_projected,    \* the stop rows read by monotonic_trips
    check_df,           \* the result of monotonic_trips
    pc                  \* "start" before the operation of the specification, "done"
                        \* after it, the name of the exception if it raised one

vars == <<distance_east, distance_north, cardinal,
          vp_geometry, vp_direction_array, vp_idx_array, nn,
          df, repair, interp,
          reinterp, speed, vp, trips_to_shape, stop_times, gdf, stops_projected, check_df,
          pc>>

classifyVars == <<distance_east, distance_north, cardinal>>
neighborVars == <<vp_geometry, vp_direction_array, vp_idx_array, nn>>
repairVars == <<df, repair, interp>>
tableVars == <<reinterp, speed, vp, trips_to_shape, stop_times, gdf, stops_projected, check_df>>

NoResult == "none"

(***************************************************************************)
(* Bounds                                                                  *)
(***************************************************************************)
MaxDelta == 5       \* displacements range over -MaxDelta..MaxDelta
MaxX == 2           \* x coordinates range over 0..MaxX
MaxY == 1           \* y coordinates of vp range over 0..MaxY
MaxVp == 4          \* a trip has 2..MaxVp vehicle positions
MaxIdxOffset == 1   \* vp_idx of a trip's first vp ranges over 0..MaxIdxOffset
MaxTimeOffset == 2  \* timestamps range over FirstTime..FirstTime + MaxTimeOffset
MaxPosition == 3    \* positions of a reference curve range over 0..MaxPosition
MaxRef == 3         \* a reference curve has 1..MaxRef points
MaxRows == 4        \* a batch has 1..MaxRows stop rows
MaxMeters == 1      \* stop_meters of a batch row ranges over 0..MaxMeters

(***************************************************************************)
(* Helpers                                                                 *)
(***************************************************************************)
Abs(n) == IF n < 0 THEN -n ELSE n

Min(a, b) == IF a < b THEN a ELSE b

Range(s) == {s[i] : i \in 1..Len(s)}

\* numpy fancy indexing arr[positions], positions 0-based
Take(arr, positions) == [i \in 1..Len(positions) |-> arr[positions[i] + 1]]

(***************************************************************************)
(* utils.py: Cardinal Direction Classifier                                 *)
(***************************************************************************)
Directions == {"Northbound", "Southbound", "Eastbound", "Westbound", "Unknown"}

\* the rule with the tie |dx| = |dy| given to the east/west branch
cardinal_definition_rules_tie_east(de, dn) ==
    IF Abs(de) >= Abs(dn)
    THEN IF de > 0 THEN "Eastbound"
         ELSE IF de < 0 THEN "Westbound"
         ELSE "Unknown"
    ELSE IF dn > 0 THEN "Northbound"
         ELSE IF dn < 0 THEN "Southbound"
         ELSE "Unknown"

cardinal_definition_rules(de, dn) ==
    IF Abs(de) > Abs(dn)
    THEN IF de > 0 THEN "Eastbound"
         ELSE IF de < 0 THEN "Westbound"
         ELSE "Unknown"
    ELSE IF dn > 0 THEN "Northbound"
         ELSE IF dn < 0 THEN "Southbound"
         ELSE "Unknown"

OPPOSITE_DIRECTIONS ==
    [d \in Directions |->
        CASE d = "Northbound" -> "Southbound"
          [] d = "Southbound" -> "Northbound"
          [] d = "Eastbound"  -> "Westbound"
          [] d = "Westbound"  -> "Eastbound"
          [] d = "Unknown"    -> ""]

InitClassify ==
    /\ distance_east \in -MaxDelta..MaxDelta
    /\ distance_north \in -MaxDelta..MaxDelta
    /\ cardinal = NoResult
    /\ vp_geometry = <<>>
    /\ vp_direction_array = <<>>
    /\ vp_idx_array = <<>>
    /\ nn = NoResult
    /\ df = <<>>
    /\ repair = NoResult
    /\ interp = NoResult
    /\ reinterp = NoResult
    /\ speed = NoResult
    /\ vp = <<>>
    /\ trips_to_shape = {}
    /\ stop_times = <<>>
    /\ gdf = NoResult
    /\ stops_projected = <<>>
    /\ check_df = NoResult
    /\ pc = "start"

Classify ==
    /\ pc = "start"
    /\ pc' = "done"
    /\ cardinal' = cardinal_definition_rules(distance_east, distance_north)
    /\ UNCHANGED <<distance_east, distance_north, neighborVars, repairVars, tableVars>>

NextClassify == Classify

SpecClassify == InitClassify /\ [][NextClassify]_vars

(***************************************************************************)
(* C1: for every displacement (dx, dy) the classifier returns exactly one  *)
(* of the five directions: if |dx| > |dy|, Eastbound when dx > 0 and       *)
(* Westbound when dx < 0; otherwise Northbound when dy > 0, Southbound     *)
(* when dy < 0 and Unknown when dy = 0.  (5,1) is East, (-5,1) West,       *)
(* (1,5) North, (1,-5) South, (0,0) Unknown and the tie (3,3) North.       *)
(***************************************************************************)
C1_ClassifierRule ==
    pc = "done" =>
        /\ cardinal \in Directions
        /\ (Abs(distance_east) > Abs(distance_north) /\ distance_east > 0)
              <=> cardinal = "Eastbound"
        /\ (Abs(distance_east) > Abs(distance_north) /\ distance_east < 0)
              <=> cardinal = "Westbound"
        /\ (Abs(distance_east) <= Abs(distance_north) /\ distance_north > 0)
              <=> cardinal = "Northbound"
        /\ (Abs(distance_east) <= Abs(distance_north) /\ distance_north < 0)
              <=> cardinal = "Southbound"
        /\ (Abs(distance_east) <= Abs(distance_north) /\ distance_north = 0)
              <=> cardinal = "Unknown"
        /\ (distance_east = 5 /\ distance_north = 1) => cardinal = "Eastbound"
        /\ (distance_east = -5 /\ distance_north = 1) => cardinal = "Westbound"
        /\ (distance_east = 1 /\ distance_north = 5) => cardinal = "Northbound"
        /\ (distance_east = 1 /\ distance_north = -5) => cardinal = "Southbound"
        /\ (distance_east = 0 /\ distance_north = 0) => cardinal = "Unknown"
        /\ (distance_east = 3 /\ distance_north = 3) => cardinal = "Northbound"

\* the tie (3,3) has been classified
C1_Witness ==
    /\ pc = "done"
    /\ distance_east = 3
    /\ distance_north = 3
    /\ cardinal = "Northbound"

(***************************************************************************)
(* partridge_gtfs_wrangling.py, neighbor.py: the vp of one trip            *)
(*                                                                         *)
(* The trip's shape is the straight path from (0,0) to (MaxX,0), so the    *)
(* projection of a point on the shape is its x coordinate clamped to the   *)
(* path, and the meters of a point are whole numbers.                      *)
(***************************************************************************)
K_NEIGHBORS == 5

VpPoints == [x : 0..MaxX, y : 0..MaxY]

StopPoints == [x : 0..MaxX, y : {0}]

\* shape_geometry.project(point)
project(point) ==
    IF point.x < 0 THEN 0 ELSE IF point.x > MaxX THEN MaxX ELSE point.x

\* vp_preprocessing: direction from the prior vp of the trip; the first vp
\* has no prior point, its displacement is NaN and every comparison fails
vp_preprocessing(coords) ==
    [i \in 1..Len(coords) |->
        IF i = 1 THEN "Unknown"
        ELSE cardinal_definition_rules(coords[i].x - coords[i-1].x,
                                       coords[i].y - coords[i-1].y)]

SquaredDistance(p, q) == (p.x - q.x) * (p.x - q.x) + (p.y - q.y) * (p.y - q.y)

\* the orders, nearest first, in which the k-d tree may list the 0-based
\* positions in remaining; points at equal distance come in any order
RECURSIVE NearestFirst(_, _, _)
NearestFirst(line, point, remaining) ==
    IF remaining = {} THEN {<<>>}
    ELSE LET nearest == {i \in remaining : \A j \in remaining :
                            SquaredDistance(line[i+1], point)
                              <= SquaredDistance(line[j+1], point)}
         IN  UNION {{<<i>> \o rest :
                        rest \in NearestFirst(line, point, remaining \ {i})} :
                    i \in nearest}

\* KDTree(line).query(point, k): the k nearest positions, nearest first;
\* the slots for which there is no point hold len(line)
nearest_snap(line, point, k_neighbors) ==
    {[j \in 1..k_neighbors |-> IF j <= Len(line) THEN order[j] ELSE Len(line)] :
        order \in NearestFirst(line, point, 0..(Len(line) - 1))}

\* the filter of find_nearest_points with the out-of-range position let through
in_bounds_off_by_one(index, size) == index <= size

\* indices < vp_idx_array.size
in_bounds(index, size) == index < size

\* the possible results of find_nearest_points
find_nearest_points(vp_coords_array, target_stop, vp_idx_arr) ==
    {SelectSeq(indices, LAMBDA i : in_bounds(i, Len(vp_idx_arr))) :
        indices \in nearest_snap(vp_coords_array, target_stop, K_NEIGHBORS)}

\* the before test with a vp at the stop counted as before it
before_indices_inclusive(nearest_vp_projected, stop_meters) ==
    SelectSeq([i \in 1..Len(nearest_vp_projected) |-> i - 1],
              LAMBDA i : nearest_vp_projected[i+1] - stop_meters <= 0)

\* np.where(nearest_vp_projected - stop_meters < 0)[0]
before_indices(nearest_vp_projected, stop_meters) ==
    SelectSeq([i \in 1..Len(nearest_vp_projected) |-> i - 1],
              LAMBDA i : nearest_vp_projected[i+1] - stop_meters < 0)

\* np.where(nearest_vp_projected - stop_meters > 0)[0]
after_indices(nearest_vp_projected, stop_meters) ==
    SelectSeq([i \in 1..Len(nearest_vp_projected) |-> i - 1],
              LAMBDA i : nearest_vp_projected[i+1] - stop_meters > 0)

\* the selection with 0 as the value of a missing vp_idx
nearest2_of_projected_zero_idx(nearest_vp_projected, nearest_vp_idx_array, stop_meters) ==
    LET before == before_indices(nearest_vp_projected, stop_meters)
        after == after_indices(nearest_vp_projected, stop_meters)
    IN  [before_idx |-> IF Len(before) > 0
                        THEN Take(nearest_vp_idx_array, before)[Len(before)]
                        ELSE 0,
         after_idx |-> IF Len(after) > 0
                       THEN Take(nearest_vp_idx_array, after)[1]
                       ELSE 0,
         before_vp_meters |-> IF Len(before) > 0
                              THEN Take(nearest_vp_projected, before)[Len(before)]
                              ELSE 0,
         after_vp_meters |-> IF Len(after) > 0
                             THEN Take(nearest_vp_projected, after)[1]
                             ELSE 0]

\* filter_to_nearest2_vp once the candidates are projected: the last of the
\* candidates before the stop and the first of the candidates after it, in
\* the order of the candidate array
nearest2_of_projected(nearest_vp_projected, nearest_vp_idx_array, stop_meters) ==
    LET before == before_indices(nearest_vp_projected, stop_meters)
        after == after_indices(nearest_vp_projected, stop_meters)
    IN  [before_idx |-> IF Len(before) > 0
                        THEN Take(nearest_vp_idx_array, before)[Len(before)]
                        ELSE -1,
         after_idx |-> IF Len(after) > 0
                       THEN Take(nearest_vp_idx_array, after)[1]
                       ELSE -1,
         before_vp_meters |-> IF Len(before) > 0
                              THEN Take(nearest_vp_projected, before)[Len(before)]
                              ELSE 0,
         after_vp_meters |-> IF Len(after) > 0
                             THEN Take(nearest_vp_projected, after)[1]
                             ELSE 0]

filter_to_nearest2_vp(nearest_vp_coords_array, nearest_vp_idx_array, stop_meters) ==
    nearest2_of_projected(
        [i \in 1..Len(nearest_vp_coords_array) |-> project(nearest_vp_coords_array[i])],
        nearest_vp_idx_array,
        stop_meters)

\* the vp kept by the direction filter with the test inverted
direction_is_valid_inverted(vp_direction, opposite_stop_direction) ==
    vp_direction = opposite_stop_direction

\* vp_direction_array != opposite_stop_direction
direction_is_valid(vp_direction, opposite_stop_direction) ==
    vp_direction # opposite_stop_direction

\* (vp_direction_array != opposite_stop_direction).nonzero()
valid_indices(direction_array, opposite_stop_direction) ==
    SelectSeq([i \in 1..Len(direction_array) |-> i - 1],
              LAMBDA i : direction_is_valid(direction_array[i+1],
                                            opposite_stop_direction))

InitNeighbor ==
    /\ distance_east = 0
    /\ distance_north = 0
    /\ cardinal = NoResult
    /\ \E n \in 2..MaxVp : vp_geometry \in [1..n -> VpPoints]
    /\ vp_direction_array = vp_preprocessing(vp_geometry)
    /\ \E first \in 0..MaxIdxOffset :
          vp_idx_array = [i \in 1..Len(vp_geometry) |-> first + i - 1]
    /\ nn = NoResult
    /\ df = <<>>
    /\ repair = NoResult
    /\ interp = NoResult
    /\ reinterp = NoResult
    /\ speed = NoResult
    /\ vp = <<>>
    /\ trips_to_shape = {}
    /\ stop_times = <<>>
    /\ gdf = NoResult
    /\ stops_projected = <<>>
    /\ check_df = NoResult
    /\ pc = "start"

\* one row of the stop table is matched against the trip's vp; indexing an
\* array past its end raises IndexError
two_nearest_neighbor_near_stop(stop_geometry, stop_primary_direction) ==
    LET opposite_stop_direction == OPPOSITE_DIRECTIONS[stop_primary_direction]
        stop_meters == project(stop_geometry)
        valid == valid_indices(vp_direction_array, opposite_stop_direction)
        valid_vp_coords_array == Take(vp_geometry, valid)
        valid_vp_idx_array == Take(vp_idx_array, valid)
    IN  \E nearest_indices \in find_nearest_points(
                valid_vp_coords_array, stop_geometry, valid_vp_idx_array) :
          IF \E i \in Range(nearest_indices) : i >= Len(valid_vp_coords_array)
          THEN /\ pc' = "IndexError"
               /\ nn' = [stop_geometry |-> stop_geometry,
                         stop_meters |-> stop_meters,
                         opposite_stop_direction |-> opposite_stop_direction,
                         valid_vp_idx_array |-> valid_vp_idx_array,
                         nearest_indices |-> nearest_indices]
          ELSE LET nearest_vp_coords_array ==
                       Take(valid_vp_coords_array, nearest_indices)
                   nearest_vp_idx_array == Take(valid_vp_idx_array, nearest_indices)
                   found == filter_to_nearest2_vp(
                       nearest_vp_coords_array, nearest_vp_idx_array, stop_meters)
               IN  /\ pc' = "done"
                   /\ nn' = [stop_geometry |-> stop_geometry,
                             stop_meters |-> stop_meters,
                             opposite_stop_direction |-> opposite_stop_direction,
                             valid_vp_idx_array |-> valid_vp_idx_array,
                             nearest_indices |-> nearest_indices,
                             nearest_vp_projected |->
                                 [i \in 1..Len(nearest_vp_coords_array) |->
                                     project(nearest_vp_coords_array[i])],
                             nearest_vp_idx_array |-> nearest_vp_idx_array,
                             before_vp |-> found.before_idx,
                             after_vp |-> found.after_idx,
                             before_meters |-> found.before_vp_meters,
                             after_meters |-> found.after_vp_meters]

\* the stop rows are matched independently of one another: a behaviour
\* follows the call for one row
TwoNearestNeighborNearStop ==
    /\ pc = "start"
    /\ \E stop_geometry \in StopPoints, stop_primary_direction \in Directions :
          two_nearest_neighbor_near_stop(stop_geometry, stop_primary_direction)
    /\ UNCHANGED <<classifyVars, vp_geometry, vp_direction_array, vp_idx_array,
                   repairVars, tableVars>>

NextNeighbor == TwoNearestNeighborNearStop

SpecNeighbor == InitNeighbor /\ [][NextNeighbor]_vars

\* positions (1-based) of the candidates handed to filter_to_nearest2_vp
\* that lie before, after and at the stop
CandidatesBefore ==
    {i \in 1..Len(nn.nearest_vp_projected) : nn.nearest_vp_projected[i] < nn.stop_meters}

CandidatesAfter ==
    {i \in 1..Len(nn.nearest_vp_projected) : nn.nearest_vp_projected[i] > nn.stop_meters}

CandidatesAtStop ==
    {i \in 1..Len(nn.nearest_vp_projected) : nn.nearest_vp_projected[i] = nn.stop_meters}

(***************************************************************************)
(* C2: the before vp is the candidate with the largest vp_meters among the *)
(* candidates with vp_meters < stop_meters, and the after vp the candidate *)
(* with the smallest vp_meters among those with vp_meters > stop_meters.   *)
(***************************************************************************)
C2_ClosestOnEachSide ==
    pc = "done" =>
        /\ CandidatesBefore # {} =>
              \E i \in CandidatesBefore :
                  /\ \A j \in CandidatesBefore :
                        nn.nearest_vp_projected[j] <= nn.nearest_vp_projected[i]
                  /\ nn.before_meters = nn.nearest_vp_projected[i]
                  /\ nn.before_vp = nn.nearest_vp_idx_array[i]
        /\ CandidatesAfter # {} =>
              \E i \in CandidatesAfter :
                  /\ \A j \in CandidatesAfter :
                        nn.nearest_vp_projected[j] >= nn.nearest_vp_projected[i]
                  /\ nn.after_meters = nn.nearest_vp_projected[i]
                  /\ nn.after_vp = nn.nearest_vp_idx_array[i]

(***************************************************************************)
(* C3: with no candidate before the stop the result has before_idx = -1    *)
(* and before_meters = 0, with none after it after_idx = -1 and            *)
(* after_meters = 0; the other side is a candidate of that side and no     *)
(* error is raised.  An empty before-set and the after-set                 *)
(* {(idx=7, meters=120)} give (-1, 7, 0, 120).                             *)
(***************************************************************************)
C3_MissingNeighborSentinel ==
    /\ pc # "IndexError"
    /\ pc = "done" =>
        /\ CandidatesBefore = {} => (nn.before_vp = -1 /\ nn.before_meters = 0)
        /\ CandidatesAfter = {} => (nn.after_vp = -1 /\ nn.after_meters = 0)
        /\ CandidatesBefore # {} =>
              \E i \in CandidatesBefore :
                  /\ nn.before_vp = nn.nearest_vp_idx_array[i]
                  /\ nn.before_meters = nn.nearest_vp_projected[i]
        /\ CandidatesAfter # {} =>
              \E i \in CandidatesAfter :
                  /\ nn.after_vp = nn.nearest_vp_idx_array[i]
                  /\ nn.after_meters = nn.nearest_vp_projected[i]
        /\ \A stop_meters \in {0, 100, 119} :
              nearest2_of_projected(<<120>>, <<7>>, stop_meters)
                = [before_idx |-> -1, after_idx |-> 7,
                   before_vp_meters |-> 0, after_vp_meters |-> 120]

\* a stop with candidates only after it has been matched
C3_Witness ==
    /\ pc = "done"
    /\ CandidatesBefore = {}
    /\ CandidatesAfter # {}
    /\ nn.before_vp = -1
    /\ nn.after_vp # -1

(***************************************************************************)
(* C4: a candidate projected exactly at stop_meters is neither the before  *)
(* vp nor the after vp: a before vp that is not -1 has before_meters <     *)
(* stop_meters, an after vp that is not -1 has after_meters > stop_meters. *)
(***************************************************************************)
C4_TieExcluded ==
    pc = "done" =>
        /\ nn.before_vp # -1 => nn.before_meters < nn.stop_meters
        /\ nn.after_vp # -1 => nn.after_meters > nn.stop_meters
        /\ \A i \in CandidatesAtStop :
              /\ nn.before_vp # nn.nearest_vp_idx_array[i]
              /\ nn.after_vp # nn.nearest_vp_idx_array[i]

\* a candidate lies exactly at the stop, and both sides were found
C4_Witness ==
    /\ pc = "done"
    /\ CandidatesAtStop # {}
    /\ nn.before_vp # -1
    /\ nn.after_vp # -1

\* positions (1-based) of the trip's vp that travel in the stop's opposite direction
OppositeVp ==
    {i \in 1..Len(vp_idx_array) : vp_direction_array[i] = nn.opposite_stop_direction}

(***************************************************************************)
(* C5: neither returned vp_idx is that of a vp whose direction is the      *)
(* stop's opposite direction: each is -1 or the vp_idx of a vp of the trip *)
(* whose direction differs from it; a stop of Unknown direction has the    *)
(* empty opposite and excludes no vp.                                      *)
(***************************************************************************)
C5_OppositeDirectionExcluded ==
    pc = "done" =>
        /\ \A v \in {nn.before_vp, nn.after_vp} :
              \/ v = -1
              \/ \E i \in 1..Len(vp_idx_array) :
                    /\ vp_idx_array[i] = v
                    /\ i \notin OppositeVp
        /\ \A i \in OppositeVp :
              vp_idx_array[i] \notin {nn.before_vp, nn.after_vp}
        /\ nn.opposite_stop_direction = "" => nn.valid_vp_idx_array = vp_idx_array

\* a vp before the stop travels the opposite way, and a before vp was found
C5_Witness ==
    /\ pc = "done"
    /\ \E i \in OppositeVp : project(vp_geometry[i]) < nn.stop_meters
    /\ nn.before_vp # -1

SecondsPerDay == 86400

NaT == -1

FirstTime == SecondsPerDay - 2

Times == {FirstTime + i : i \in 0..MaxTimeOffset}

\* numpy's binary_search_with_guess for the arrays of at most 4 points that
\* the model builds (a linear scan): the 0-based j with arr[j] <= key <
\* arr[j+1], -1 if key < arr[0], len(arr) if key > arr[len-1]; on a
\* nondecreasing array the bisection used for longer arrays returns the same j
binary_search_with_guess(key, arr) ==
    LET len == Len(arr)
        above == {i \in 1..(len - 1) : ~(key >= arr[i+1])}
    IN  IF key > arr[len] THEN len
        ELSE IF key < arr[1] THEN -1
        ELSE IF above = {} THEN len - 1
        ELSE (CHOOSE i \in above : \A k \in above : i <= k) - 1

\* np.interp with the two clamped ends exchanged
np_interp_ends_swapped(x, xp, fp) ==
    LET len == Len(xp)
        j == binary_search_with_guess(x, xp)
    IN  IF j = -1 THEN fp[len]
        ELSE IF j = len THEN fp[1]
        ELSE IF j = len - 1 THEN fp[j+1]
        ELSE IF xp[j+1] = x THEN fp[j+1]
        ELSE fp[j+1] + (((fp[j+2] - fp[j+1]) * (x - xp[j+1])) \div (xp[j+2] - xp[j+1]))

\* np.interp(x, xp, fp) cast to datetime64[s]: slope * (x - xp[j]) + fp[j],
\* cut to whole seconds; xp[j] < x < xp[j+1] where the slope is used
np_interp(x, xp, fp) ==
    LET len == Len(xp)
        j == binary_search_with_guess(x, xp)
    IN  IF j = -1 THEN fp[1]
        ELSE IF j = len THEN fp[len]
        ELSE IF j = len - 1 THEN fp[j+1]
        ELSE IF xp[j+1] = x THEN fp[j+1]
        ELSE fp[j+1] + (((fp[j+2] - fp[j+1]) * (x - xp[j+1])) \div (xp[j+2] - xp[j+1]))

interpolate_stop_arrival_time(stop_position, shape_meters_arr, timestamp_arr) ==
    np_interp(stop_position, shape_meters_arr, timestamp_arr)

InitInterp ==
    /\ distance_east = 0
    /\ distance_north = 0
    /\ cardinal = NoResult
    /\ vp_geometry = <<>>
    /\ vp_direction_array = <<>>
    /\ vp_idx_array = <<>>
    /\ nn = NoResult
    /\ df = <<>>
    /\ repair = NoResult
    /\ \E n \in 1..MaxRef :
          \E xp \in [1..n -> 0..MaxPosition], fp \in [1..n -> Times],
             x \in 0..MaxPosition :
              interp = [stop_position |-> x, shape_meters_arr |-> xp,
                        timestamp_arr |-> fp, arrival_time |-> NaT]
    /\ reinterp = NoResult
    /\ speed = NoResult
    /\ vp = <<>>
    /\ trips_to_shape = {}
    /\ stop_times = <<>>
    /\ gdf = NoResult
    /\ stops_projected = <<>>
    /\ check_df = NoResult
    /\ pc = "start"

InterpolateStopArrivalTime ==
    /\ pc = "start"
    /\ pc' = "done"
    /\ interp' = [interp EXCEPT !.arrival_time =
                    interpolate_stop_arrival_time(
                        interp.stop_position, interp.shape_meters_arr,
                        interp.timestamp_arr)]
    /\ UNCHANGED <<classifyVars, neighborVars, df, repair, tableVars>>

NextInterp == InterpolateStopArrivalTime

SpecInterp == InitInterp /\ [][NextInterp]_vars

StrictlyIncreasing(arr) == \A i \in 1..(Len(arr) - 1) : arr[i] < arr[i+1]

(***************************************************************************)
(* C10: with the reference positions in increasing order, the interpolator *)
(* returns the first reference time for a stop position below the smallest *)
(* reference position, the last reference time for one above the largest,  *)
(* and between two adjacent reference positions the linear interpolation   *)
(* of their times, cut to whole seconds.                                   *)
(***************************************************************************)
C10_ClampAndInterpolate ==
    (pc = "done" /\ StrictlyIncreasing(interp.shape_meters_arr)) =>
        LET x == interp.stop_position
            xp == interp.shape_meters_arr
            fp == interp.timestamp_arr
            r == interp.arrival_time
        IN  /\ x < xp[1] => r = fp[1]
            /\ x > xp[Len(xp)] => r = fp[Len(xp)]
            /\ \A j \in 1..(Len(xp) - 1) :
                  (xp[j] <= x /\ x <= xp[j+1]) =>
                      /\ (r - fp[j]) * (xp[j+1] - xp[j])
                            <= (fp[j+1] - fp[j]) * (x - xp[j])
                      /\ (fp[j+1] - fp[j]) * (x - xp[j])
                            < (r - fp[j] + 1) * (xp[j+1] - xp[j])

\* a position strictly between two reference points whose interpolated time
\* is not a whole number of seconds
C10_Witness ==
    /\ pc = "done"
    /\ StrictlyIncreasing(interp.shape_meters_arr)
    /\ \E j \in 1..(Len(interp.shape_meters_arr) - 1) :
          /\ interp.shape_meters_arr[j] < interp.stop_position
          /\ interp.stop_position < interp.shape_meters_arr[j+1]
          /\ (interp.arrival_time - interp.timestamp_arr[j])
                * (interp.shape_meters_arr[j+1] - interp.shape_meters_arr[j])
               < (interp.timestamp_arr[j+1] - interp.timestamp_arr[j])
                   * (interp.stop_position - interp.shape_meters_arr[j])

(***************************************************************************)
(* neighbor.py: Monotonicity Repair                                        *)
(*                                                                         *)
(* A stop row is [trip_instance_key, stop_sequence, stop_meters,           *)
(* arrival_time]; a batch is a sequence of rows in the order of the data   *)
(* frame.  Trip keys are numbers, ordered as pandas orders the keys.       *)
(***************************************************************************)
NaN == -1

TripKeys == {1, 2}

\* convert_timestamp_to_seconds: hour * 3600 + minute * 60 + second
convert_timestamp_to_seconds(arrival_time) ==
    IF arrival_time = NaT THEN NaN ELSE arrival_time % SecondsPerDay

\* utils.monotonic_check is not among the sources; the specification has it
\* test strict increase across the window (a NaN fails every comparison)
monotonic_check(arr) ==
    \A i \in 1..(Len(arr) - 1) :
        arr[i] # NaN /\ arr[i+1] # NaN /\ arr[i+1] - arr[i] > 0

\* the row positions (1-based) of one group, in row order
GroupIndices(frame, key) ==
    SelectSeq([i \in 1..Len(frame) |-> i],
              LAMBDA i : frame[i].trip_instance_key = key)

\* bounds [start, end) of the window of the i-th (0-based) of num_values
\* values, with the centre at the edge of the window
window_bounds_trailing(i, num_values, window) ==
    LET end == i + 1
        start == end - window
    IN  [start |-> IF start < 0 THEN 0 ELSE start,
         end |-> IF end > num_values THEN num_values ELSE end]

\* pandas FixedWindowIndexer.get_window_bounds with center=True: bounds
\* [start, end) of the window of the i-th (0-based) of num_values values
window_bounds(i, num_values, window) ==
    LET offset == (window - 1) \div 2
        end == i + 1 + offset
        start == end - window
    IN  [start |-> IF start < 0 THEN 0 ELSE start,
         end |-> IF end > num_values THEN num_values ELSE end]

\* the windows of one group, one per row of the group
GroupWindows(values, indices, window) ==
    [i \in 1..Len(indices) |->
        LET b == window_bounds(i - 1, Len(indices), window)
        IN  [k \in 1..(b.end - b.start) |-> values[indices[b.start + k]]]]

\* iterating groupby(trip_instance_key)[col].rolling(window, center=True):
\* the windows of the first group, then those of the next group, in key order
RECURSIVE RollingWindows(_, _, _, _)
RollingWindows(frame, values, window, key) ==
    IF key \notin TripKeys THEN <<>>
    ELSE GroupWindows(values, GroupIndices(frame, key), window)
           \o RollingWindows(frame, values, window, key + 1)

\* rolling_window_make_array: the list of windows becomes a column, the
\* n-th window in the n-th row of the frame, and each row is flagged by the
\* window it holds
rolling_window_make_array(frame, values, window) ==
    LET rolling == RollingWindows(frame, values, window, 1)
    IN  [n \in 1..Len(frame) |-> monotonic_check(rolling[n])]

\* rows in the order of trip_stop_cols = (trip_instance_key, stop_sequence)
RowBefore(a, b) ==
    \/ a.trip_instance_key < b.trip_instance_key
    \/ /\ a.trip_instance_key = b.trip_instance_key
       /\ a.stop_sequence < b.stop_sequence

\* sort_values(trip_stop_cols) of rows with distinct (trip, stop_sequence)
sort_values(frame) ==
    [n \in 1..Len(frame) |->
        LET i == CHOOSE i \in 1..Len(frame) :
                    Cardinality({j \in 1..Len(frame) : RowBefore(frame[j], frame[i])})
                      = n - 1
        IN  frame[i]]

\* the reference rows of one trip: its rows with an arrival time, in the
\* order of trip_stop_cols
ReferenceRows(frame, key) ==
    SelectSeq(sort_values(frame),
              LAMBDA row : row.trip_instance_key = key /\ row.arrival_time # NaT)

\* stop_and_arrival_time_arrays_by_trip: the inner merge keeps the rows of
\* the trips that have a reference row; every kept row is interpolated.
\* With no row kept, DataFrame.apply returns the empty frame itself and
\* assigning it to the arrival_time column raises ValueError.
\* df_arrays holds, for every trip with a reference row, the stop_meters
\* and the arrival times of its reference rows.
stop_and_arrival_time_arrays_by_trip(frame) ==
    LET df2 == SelectSeq(frame,
                   LAMBDA row : Len(ReferenceRows(frame, row.trip_instance_key)) > 0)
        df_arrays ==
            [key \in {k \in TripKeys : Len(ReferenceRows(frame, k)) > 0} |->
                [stop_meters_arr |->
                    [k \in 1..Len(ReferenceRows(frame, key)) |->
                        ReferenceRows(frame, key)[k].stop_meters],
                 arrival_time_arr |->
                    [k \in 1..Len(ReferenceRows(frame, key)) |->
                        ReferenceRows(frame, key)[k].arrival_time]]]
    IN  IF Len(df2) = 0
        THEN [raised |-> "ValueError", df_arrays |-> df_arrays, rows |-> <<>>]
        ELSE [raised |-> "",
              df_arrays |-> df_arrays,
              rows |->
                [n \in 1..Len(df2) |->
                    LET x == df_arrays[df2[n].trip_instance_key]
                    IN  [df2[n] EXCEPT !.arrival_time =
                            interpolate_stop_arrival_time(
                                df2[n].stop_meters,
                                x.stop_meters_arr,
                                x.arrival_time_arr)]]]

enforce_monotonicity_and_interpolate_across_stops(frame) ==
    LET arrival_time_sec ==
            [n \in 1..Len(frame) |-> convert_timestamp_to_seconds(frame[n].arrival_time)]
        monotonic == rolling_window_make_array(frame, arrival_time_sec, 3)
        trips_with_one_false ==
            {frame[n].trip_instance_key : n \in {m \in 1..Len(frame) : ~monotonic[m]}}
        masked == [n \in 1..Len(frame) |->
                      IF monotonic[n] THEN frame[n]
                      ELSE [frame[n] EXCEPT !.arrival_time = NaT]]
        no_fix == SelectSeq(masked,
                      LAMBDA row : row.trip_instance_key \notin trips_with_one_false)
        fix1 == stop_and_arrival_time_arrays_by_trip(
                    SelectSeq(masked,
                        LAMBDA row : row.trip_instance_key \in trips_with_one_false))
    IN  [arrival_time_sec |-> arrival_time_sec,
         monotonic |-> monotonic,
         trips_with_one_false |-> trips_with_one_false,
         df_arrays |-> fix1.df_arrays,
         raised |-> fix1.raised,
         fixed_df |-> IF fix1.raised = "" THEN sort_values(no_fix \o fix1.rows)
                      ELSE <<>>]

\* the rows of a batch of na stops of trip 1 and nb stops of trip 2, sorted
\* by trip_stop_cols; stop_sequence counts from 1 within the trip
BatchKeys(na, nb) ==
    [n \in 1..(na + nb) |->
        IF n <= na THEN [trip_instance_key |-> 1, stop_sequence |-> n]
        ELSE [trip_instance_key |-> 2, stop_sequence |-> n - na]]

\* the row orders of a batch of n rows: the sorted order, or the sorted
\* order with rows i and i+1 exchanged (i = 0 exchanges nothing)
RowOrder(n, i) ==
    [k \in 1..n |-> IF i = 0 THEN k
                    ELSE IF k = i THEN i + 1
                    ELSE IF k = i + 1 THEN i
                    ELSE k]

InitRepair ==
    /\ distance_east = 0
    /\ distance_north = 0
    /\ cardinal = NoResult
    /\ vp_geometry = <<>>
    /\ vp_direction_array = <<>>
    /\ vp_idx_array = <<>>
    /\ nn = NoResult
    /\ interp = NoResult
    /\ repair = NoResult
    /\ \E na \in 1..MaxRows :
          \E nb \in 0..(MaxRows - na) :
              \E meters \in [1..(na + nb) -> 0..MaxMeters],
                 times \in [1..(na + nb) -> Times],
                 swap \in 0..(na + nb - 1) :
                  df = [k \in 1..(na + nb) |->
                          LET n == RowOrder(na + nb, swap)[k]
                          IN  [trip_instance_key |-> BatchKeys(na, nb)[n].trip_instance_key,
                               stop_sequence |-> BatchKeys(na, nb)[n].stop_sequence,
                               stop_meters |-> meters[n],
                               arrival_time |-> times[n]]]
    /\ reinterp = NoResult
    /\ speed = NoResult
    /\ vp = <<>>
    /\ trips_to_shape = {}
    /\ stop_times = <<>>
    /\ gdf = NoResult
    /\ stops_projected = <<>>
    /\ check_df = NoResult
    /\ pc = "start"

EnforceMonotonicity ==
    /\ pc = "start"
    /\ repair' = enforce_monotonicity_and_interpolate_across_stops(df)
    /\ pc' = IF repair'.raised = "" THEN "done" ELSE repair'.raised
    /\ UNCHANGED <<classifyVars, neighborVars, df, interp, tableVars>>

NextRepair == EnforceMonotonicity

SpecRepair == InitRepair /\ [][NextRepair]_vars

\* the arrival seconds of the stops of row n's trip whose stop_sequence is
\* that of row n or next to it, in stop_sequence order
CenteredWindow(n) ==
    LET near == SelectSeq(sort_values(df),
                    LAMBDA row :
                        /\ row.trip_instance_key = df[n].trip_instance_key
                        /\ row.stop_sequence >= df[n].stop_sequence - 1
                        /\ row.stop_sequence <= df[n].stop_sequence + 1)
    IN  [k \in 1..Len(near) |-> convert_timestamp_to_seconds(near[k].arrival_time)]

\* the trips of the batch with a stop marked non-monotonic
ViolatingTrips ==
    {df[n].trip_instance_key : n \in {m \in 1..Len(df) : ~repair.monotonic[m]}}

\* the batch is in the order of trip_stop_cols
BatchSorted == df = sort_values(df)

(***************************************************************************)
(* C7: a stop is marked non-monotonic exactly when the arrival seconds of  *)
(* its centered window (the stop, its predecessor and its successor in     *)
(* stop_sequence order within the trip; two values at the first and the    *)
(* last stop) are not strictly increasing, and a trip is treated as        *)
(* VIOLATING exactly when one of its stops is so marked.                   *)
(***************************************************************************)
C7_MarkedIffWindowFails ==
    pc # "start" =>
        /\ \A n \in 1..Len(df) :
              repair.monotonic[n] <=> StrictlyIncreasing(CenteredWindow(n))
        /\ repair.trips_with_one_false = ViolatingTrips

(***************************************************************************)
(* C9: every stop row of a trip in which no stop is marked non-monotonic   *)
(* (a CLEAN trip) is returned with its arrival_time and stop_meters        *)
(* unchanged, whatever other trips of the batch are VIOLATING.             *)
(***************************************************************************)
C9_CleanTripsPassThrough ==
    pc # "start" =>
        \A n \in 1..Len(df) :
            df[n].trip_instance_key \notin ViolatingTrips =>
                /\ pc = "done"
                /\ \E k \in 1..Len(repair.fixed_df) : repair.fixed_df[k] = df[n]
                /\ Cardinality({k \in 1..Len(repair.fixed_df) :
                        /\ repair.fixed_df[k].trip_instance_key = df[n].trip_instance_key
                        /\ repair.fixed_df[k].stop_sequence = df[n].stop_sequence}) = 1

(***************************************************************************)
(* The trip with arrival seconds 100, 200, 150, 400 at stop sequences      *)
(* 1, 2, 3, 4, its rows in stop_sequence order, at any stop positions      *)
(***************************************************************************)
ScenarioTimes == <<100, 200, 150, 400>>

InitScenario ==
    /\ distance_east = 0
    /\ distance_north = 0
    /\ cardinal = NoResult
    /\ vp_geometry = <<>>
    /\ vp_direction_array = <<>>
    /\ vp_idx_array = <<>>
    /\ nn = NoResult
    /\ interp = NoResult
    /\ repair = NoResult
    /\ \E meters \in [1..4 -> 0..MaxPosition] :
          df = [n \in 1..4 |-> [trip_instance_key |-> 1,
                                stop_sequence |-> n,
                                stop_meters |-> meters[n],
                                arrival_time |-> ScenarioTimes[n]]]
    /\ reinterp = NoResult
    /\ speed = NoResult
    /\ vp = <<>>
    /\ trips_to_shape = {}
    /\ stop_times = <<>>
    /\ gdf = NoResult
    /\ stops_projected = <<>>
    /\ check_df = NoResult
    /\ pc = "start"

SpecScenario == InitScenario /\ [][NextRepair]_vars

TripsWithNoValidStop ==
    {key \in repair.trips_with_one_false :
        \A n \in 1..Len(df) : df[n].trip_instance_key = key => ~repair.monotonic[n]}

(***************************************************************************)
(* C12: when a VIOLATING trip has no stop with a valid arrival time left,  *)
(* the repair does not raise, every stop row of that trip is in the output *)
(* with a missing arrival_time, and every row of the other trips of the    *)
(* batch is in the output too.                                             *)
(***************************************************************************)
C12_NoValidStopStaysMissing ==
    (pc # "start" /\ TripsWithNoValidStop # {}) =>
        /\ pc = "done"
        /\ Len(repair.fixed_df) = Len(df)
        /\ \A n \in 1..Len(df) :
              \E m \in 1..Len(repair.fixed_df) :
                  /\ repair.fixed_df[m].trip_instance_key = df[n].trip_instance_key
                  /\ repair.fixed_df[m].stop_sequence = df[n].stop_sequence
                  /\ df[n].trip_instance_key \in TripsWithNoValidStop =>
                        repair.fixed_df[m].arrival_time = NaT

(***************************************************************************)
(* stop_and_arrival_time_arrays_by_trip called again on one trip whose     *)
(* stops all have an arrival time, the times strictly increasing with      *)
(* stop_sequence; the stops lie at any positions                           *)
(***************************************************************************)
InitReinterpolate ==
    /\ distance_east = 0
    /\ distance_north = 0
    /\ cardinal = NoResult
    /\ vp_geometry = <<>>
    /\ vp_direction_array = <<>>
    /\ vp_idx_array = <<>>
    /\ nn = NoResult
    /\ interp = NoResult
    /\ repair = NoResult
    /\ \E n \in 1..MaxRef :
          \E meters \in [1..n -> 0..MaxPosition],
             times \in {t \in [1..n -> Times] : StrictlyIncreasing(t)} :
              df = [k \in 1..n |-> [trip_instance_key |-> 1,
                                    stop_sequence |-> k,
                                    stop_meters |-> meters[k],
                                    arrival_time |-> times[k]]]
    /\ reinterp = NoResult
    /\ speed = NoResult
    /\ vp = <<>>
    /\ trips_to_shape = {}
    /\ stop_times = <<>>
    /\ gdf = NoResult
    /\ stops_projected = <<>>
    /\ check_df = NoResult
    /\ pc = "start"

StopAndArrivalTimeArraysByTrip ==
    /\ pc = "start"
    /\ reinterp' = stop_and_arrival_time_arrays_by_trip(df)
    /\ pc' = IF reinterp'.raised = "" THEN "done" ELSE reinterp'.raised
    /\ UNCHANGED <<classifyVars, neighborVars, repairVars,
                   speed, vp, trips_to_shape, stop_times, gdf, stops_projected,
                   check_df>>

NextReinterpolate == StopAndArrivalTimeArraysByTrip

SpecReinterpolate == InitReinterpolate /\ [][NextReinterpolate]_vars

(***************************************************************************)
(* C11: the interpolation is idempotent on a fully populated trip whose    *)
(* arrival times strictly increase with stop order: called on such a trip  *)
(* it returns every stop row with the arrival time the row already had.    *)
(***************************************************************************)
C11_Idempotent ==
    pc # "start" =>
        /\ pc = "done"
        /\ Len(reinterp.rows) = Len(df)
        /\ \A n \in 1..Len(df) :
              /\ reinterp.rows[n].stop_sequence = df[n].stop_sequence
              /\ reinterp.rows[n].arrival_time = df[n].arrival_time

(***************************************************************************)
(* calculate_speed_from_stop_arrivals                                      *)
(*                                                                         *)
(* The columns it computes are float64.  A float is modelled as a record:  *)
(* a fraction in lowest terms with a positive denominator (kind finite),   *)
(* plus or minus infinity (kind inf, num 1 or -1), or NaN (kind nan),      *)
(* which is also pandas' null of a float column.  The fractions are exact: *)
(* the rounding of binary floating point is not modelled.                  *)
(***************************************************************************)
MaxSpeedRows == 3   \* a batch handed to the speed calculation has 1..MaxSpeedRows rows

RECURSIVE GCD(_, _)
GCD(a, b) == IF b = 0 THEN a ELSE GCD(b, a % b)

Finite(num, den) ==
    LET g == GCD(Abs(num), den)
    IN  [kind |-> "finite", num |-> num \div g, den |-> den \div g]

NullFloat == [kind |-> "nan", num |-> 0, den |-> 1]
PosInf == [kind |-> "inf", num |-> 1, den |-> 0]
NegInf == [kind |-> "inf", num |-> -1, den |-> 0]

\* utils.MPH_PER_MPS = 2.237
MPH_PER_MPS == Finite(2237, 1000)

\* an integer column that holds NaN for a missing value, as float64
AsFloat(value) == IF value = NaN THEN NullFloat ELSE Finite(value, 1)

\* a - b of two float columns that hold whole numbers or NaN
subtract(a, b) ==
    IF a.kind = "nan" \/ b.kind = "nan" THEN NullFloat
    ELSE Finite(a.num - b.num, 1)

true_divide_zero_is_nan(a, b) ==
    IF a.kind = "nan" \/ b.kind = "nan" THEN NullFloat
    ELSE IF b.num = 0 THEN NullFloat
    ELSE IF b.num > 0 THEN Finite(a.num * b.den, a.den * b.num)
    ELSE Finite(-(a.num * b.den), a.den * (-b.num))

\* a / b as numpy divides float64: a nonzero number over zero is infinite
\* with the sign of the number, zero over zero is NaN, nothing is raised
true_divide(a, b) ==
    IF a.kind = "nan" \/ b.kind = "nan" THEN NullFloat
    ELSE IF b.num = 0
         THEN IF a.num > 0 THEN PosInf
              ELSE IF a.num < 0 THEN NegInf
              ELSE NullFloat
    ELSE IF b.num > 0 THEN Finite(a.num * b.den, a.den * b.num)
    ELSE Finite(-(a.num * b.den), a.den * (-b.num))

\* a * b for a positive finite b
multiply(a, b) ==
    IF a.kind = "finite" THEN Finite(a.num * b.num, a.den * b.den) ELSE a

calculate_speed_inverted(meters_elapsed, sec_elapsed) ==
    multiply(true_divide(sec_elapsed, meters_elapsed), MPH_PER_MPS)

calculate_speed(meters_elapsed, sec_elapsed) ==
    multiply(true_divide(meters_elapsed, sec_elapsed), MPH_PER_MPS)

\* groupby(trip_cols).shift(-1): the position of the next row of the frame
\* that belongs to the trip of row n, 0 when row n is the last of its trip
shift_next_ungrouped(frame, n) ==
    IF n < Len(frame) THEN n + 1 ELSE 0

shift_next(frame, n) ==
    LET later == {m \in (n + 1)..Len(frame) :
                    frame[m].trip_instance_key = frame[n].trip_instance_key}
    IN  IF later = {} THEN 0
        ELSE CHOOSE m \in later : \A k \in later : m <= k

calculate_speed_from_stop_arrivals(frame) ==
    LET sorted == sort_values(frame)
        arrival_time_sec ==
            [n \in 1..Len(sorted) |->
                AsFloat(convert_timestamp_to_seconds(sorted[n].arrival_time))]
        stop_meters == [n \in 1..Len(sorted) |-> Finite(sorted[n].stop_meters, 1)]
        subseq_arrival_time_sec ==
            [n \in 1..Len(sorted) |->
                IF shift_next(sorted, n) = 0 THEN NullFloat
                ELSE arrival_time_sec[shift_next(sorted, n)]]
        subseq_stop_meters ==
            [n \in 1..Len(sorted) |->
                IF shift_next(sorted, n) = 0 THEN NullFloat
                ELSE stop_meters[shift_next(sorted, n)]]
    IN  [n \in 1..Len(sorted) |->
            LET meters_elapsed == subtract(subseq_stop_meters[n], stop_meters[n])
                sec_elapsed == subtract(subseq_arrival_time_sec[n], arrival_time_sec[n])
            IN  [trip_instance_key |-> sorted[n].trip_instance_key,
                 stop_sequence |-> sorted[n].stop_sequence,
                 stop_meters |-> sorted[n].stop_meters,
                 arrival_time |-> sorted[n].arrival_time,
                 arrival_time_sec |-> arrival_time_sec[n],
                 meters_elapsed |-> meters_elapsed,
                 sec_elapsed |-> sec_elapsed,
                 speed_mph |-> calculate_speed(meters_elapsed, sec_elapsed)]]

\* the stop positions and arrival times of the batches: a stop at the start
\* of the path or 500 m along it; no arrival time, or 23:58:20, 00:00:00 or
\* 00:01:40 around the first midnight
SpeedMeters == {0, 500}
SpeedTimes == {NaT, SecondsPerDay - 100, SecondsPerDay, SecondsPerDay + 100}

InitSpeed ==
    /\ distance_east = 0
    /\ distance_north = 0
    /\ cardinal = NoResult
    /\ vp_geometry = <<>>
    /\ vp_direction_array = <<>>
    /\ vp_idx_array = <<>>
    /\ nn = NoResult
    /\ interp = NoResult
    /\ repair = NoResult
    /\ \E na \in 1..MaxSpeedRows :
          \E nb \in 0..(MaxSpeedRows - na) :
              \E meters \in [1..(na + nb) -> SpeedMeters],
                 times \in [1..(na + nb) -> SpeedTimes],
                 swap \in 0..(na + nb - 1) :
                  df = [k \in 1..(na + nb) |->
                          LET n == RowOrder(na + nb, swap)[k]
                          IN  [trip_instance_key |-> BatchKeys(na, nb)[n].trip_instance_key,
                               stop_sequence |-> BatchKeys(na, nb)[n].stop_sequence,
                               stop_meters |-> meters[n],
                               arrival_time |-> times[n]]]
    /\ reinterp = NoResult
    /\ speed = NoResult
    /\ vp = <<>>
    /\ trips_to_shape = {}
    /\ stop_times = <<>>
    /\ gdf = NoResult
    /\ stops_projected = <<>>
    /\ check_df = NoResult
    /\ pc = "start"

CalculateSpeedFromStopArrivals ==
    /\ pc = "start"
    /\ pc' = "done"
    /\ speed' = calculate_speed_from_stop_arrivals(df)
    /\ UNCHANGED <<classifyVars, neighborVars, repairVars,
                   reinterp, vp, trips_to_shape, stop_times, gdf, stops_projected,
                   check_df>>

NextSpeed == CalculateSpeedFromStopArrivals

SpecSpeed == InitSpeed /\ [][NextSpeed]_vars

\* the rows of the batch that belong to the trip of row `row` and come after
\* it in stop_sequence
LaterStops(row) ==
    {m \in 1..Len(df) :
        /\ df[m].trip_instance_key = row.trip_instance_key
        /\ df[m].stop_sequence > row.stop_sequence}

\* the successor of `row` in its trip: the later stop with the smallest
\* stop_sequence
Successor(row) ==
    df[CHOOSE m \in LaterStops(row) :
          \A k \in LaterStops(row) : df[m].stop_sequence <= df[k].stop_sequence]

\* seconds after midnight of an arrival time, as the code computes it
SecondsOfDay(row) == row.arrival_time % SecondsPerDay

(***************************************************************************)
(* C13: the output has one row per stop, ordered by trip and               *)
(* stop_sequence.  A stop with a successor in its trip (the stop of the    *)
(* same trip with the next larger stop_sequence) gets meters_elapsed =     *)
(* successor.stop_meters - stop_meters, sec_elapsed = successor seconds -  *)
(* own seconds (null when one of the two times is missing) and speed_mph   *)
(* = meters_elapsed / sec_elapsed * 2.237, so that 500 m in 100 s is       *)
(* 11.185 mph.  The last stop of a trip gets null elapsed values and a     *)
(* null speed; a stop is never paired with a stop of another trip.         *)
(***************************************************************************)
C13_SegmentsWithinTrip ==
    pc = "done" =>
        /\ Len(speed) = Len(df)
        /\ \A n \in 1..(Len(speed) - 1) : RowBefore(speed[n], speed[n+1])
        /\ \A n \in 1..Len(speed) :
              LET row == speed[n]
              IN  /\ \E m \in 1..Len(df) :
                        /\ df[m].trip_instance_key = row.trip_instance_key
                        /\ df[m].stop_sequence = row.stop_sequence
                        /\ df[m].stop_meters = row.stop_meters
                        /\ df[m].arrival_time = row.arrival_time
                  /\ IF LaterStops(row) = {}
                     THEN /\ row.meters_elapsed.kind = "nan"
                          /\ row.sec_elapsed.kind = "nan"
                          /\ row.speed_mph.kind = "nan"
                     ELSE LET next == Successor(row)
                          IN  /\ row.meters_elapsed.kind = "finite"
                              /\ row.meters_elapsed.den = 1
                              /\ row.meters_elapsed.num = next.stop_meters - row.stop_meters
                              /\ IF row.arrival_time = NaT \/ next.arrival_time = NaT
                                 THEN /\ row.sec_elapsed.kind = "nan"
                                      /\ row.speed_mph.kind = "nan"
                                 ELSE /\ row.sec_elapsed.kind = "finite"
                                      /\ row.sec_elapsed.den = 1
                                      /\ row.sec_elapsed.num =
                                            SecondsOfDay(next) - SecondsOfDay(row)
                                      /\ row.sec_elapsed.num > 0 =>
                                            row.speed_mph =
                                              Finite(row.meters_elapsed.num * 2237,
                                                     row.sec_elapsed.num * 1000)
                                      /\ row.sec_elapsed.num < 0 =>
                                            row.speed_mph =
                                              Finite(-(row.meters_elapsed.num * 2237),
                                                     (-row.sec_elapsed.num) * 1000)
                              /\ (row.meters_elapsed.num = 500 /\ row.sec_elapsed = Finite(100, 1)) =>
                                    row.speed_mph = Finite(11185, 1000)

\* two trips interleaved in the batch, one of them covering 500 m in 100 s
C13_Witness ==
    /\ pc = "done"
    /\ ~BatchSorted
    /\ \E n \in 1..Len(speed) :
          /\ speed[n].trip_instance_key = 2
          /\ speed[n].meters_elapsed = Finite(500, 1)
          /\ speed[n].sec_elapsed = Finite(100, 1)
          /\ speed[n].speed_mph = Finite(11185, 1000)
    /\ \E n \in 1..Len(speed) :
          /\ speed[n].trip_instance_key = 1
          /\ speed[n].meters_elapsed.kind = "nan"

(***************************************************************************)
(* The speed calculation on the trip with stops at 0, 500 and 1200 m and   *)
(* arrival seconds 0, 100 and 260 (trip 1), alone or in a batch with up to *)
(* MaxOtherRows stops of another trip, in sorted order or with two         *)
(* adjacent rows exchanged                                                 *)
(***************************************************************************)
MaxOtherRows == 2   \* the other trip of the batch has 0..MaxOtherRows stops

ScenarioStopMeters == <<0, 500, 1200>>
ScenarioArrivalSeconds == <<0, 100, 260>>

InitSpeedScenario ==
    /\ distance_east = 0
    /\ distance_north = 0
    /\ cardinal = NoResult
    /\ vp_geometry = <<>>
    /\ vp_direction_array = <<>>
    /\ vp_idx_array = <<>>
    /\ nn = NoResult
    /\ interp = NoResult
    /\ repair = NoResult
    /\ \E nb \in 0..MaxOtherRows :
          \E meters \in [1..nb -> SpeedMeters],
             times \in [1..nb -> SpeedTimes],
             swap \in 0..(3 + nb - 1) :
              df = [k \in 1..(3 + nb) |->
                      LET n == RowOrder(3 + nb, swap)[k]
                      IN  [trip_instance_key |-> BatchKeys(3, nb)[n].trip_instance_key,
                           stop_sequence |-> BatchKeys(3, nb)[n].stop_sequence,
                           stop_meters |-> IF n <= 3 THEN ScenarioStopMeters[n]
                                           ELSE meters[n - 3],
                           arrival_time |-> IF n <= 3
                                            THEN SecondsPerDay + ScenarioArrivalSeconds[n]
                                            ELSE times[n - 3]]]
    /\ reinterp = NoResult
    /\ speed = NoResult
    /\ vp = <<>>
    /\ trips_to_shape = {}
    /\ stop_times = <<>>
    /\ gdf = NoResult
    /\ stops_projected = <<>>
    /\ check_df = NoResult
    /\ pc = "start"

SpecSpeedScenario == InitSpeedScenario /\ [][NextSpeed]_vars

\* the rows of trip 1 in the output that carry a speed, in output order
ScenarioSegments ==
    SelectSeq(speed, LAMBDA row : row.trip_instance_key = 1 /\ row.speed_mph.kind # "nan")

\* a finite float equals tenthousandths / 10000 when rounded to four decimals
RoundsTo(float, tenthousandths) ==
    /\ float.kind = "finite"
    /\ 2 * Abs(float.num * 10000 - tenthousandths * float.den) <= float.den

(***************************************************************************)
(* C14 as stated: the trip with stop_meters 0, 500, 1200 and arrival       *)
(* seconds 0, 100, 260 yields exactly two segments, with speeds 11.185 and *)
(* 17.0786 mph.                                                            *)
(***************************************************************************)
C14_Speeds11185And170786 ==
    pc = "done" =>
        /\ Len(ScenarioSegments) = 2
        /\ RoundsTo(ScenarioSegments[1].speed_mph, 111850)
        /\ RoundsTo(ScenarioSegments[2].speed_mph, 170786)

(***************************************************************************)
(* C14 amended: the trip yields exactly two segments, from stop 1 to stop  *)
(* 2 and from stop 2 to stop 3, with speeds 500/100 * 2.237 = 11.185 and   *)
(* 700/160 * 2.237 = 9.786875 mph; the row of stop 3 carries no speed.     *)
(***************************************************************************)
C14_Speeds11185And9786875 ==
    pc = "done" =>
        /\ Len(ScenarioSegments) = 2
        /\ ScenarioSegments[1].stop_sequence = 1
        /\ ScenarioSegments[1].meters_elapsed = Finite(500, 1)
        /\ ScenarioSegments[1].sec_elapsed = Finite(100, 1)
        /\ ScenarioSegments[1].speed_mph = Finite(11185, 1000)
        /\ ScenarioSegments[2].stop_sequence = 2
        /\ ScenarioSegments[2].meters_elapsed = Finite(700, 1)
        /\ ScenarioSegments[2].sec_elapsed = Finite(160, 1)
        /\ ScenarioSegments[2].speed_mph = Finite(9786875, 1000000)
        /\ \E n \in 1..Len(speed) :
              /\ speed[n].trip_instance_key = 1
              /\ speed[n].stop_sequence = 3
              /\ speed[n].speed_mph.kind = "nan"

\* the scenario trip was processed in a batch whose rows were not in order
\* and that held stops of another trip
C14_Witness ==
    /\ pc = "done"
    /\ ~BatchSorted
    /\ Len(speed) = 5
    /\ Len(ScenarioSegments) = 2
    /\ RoundsTo(ScenarioSegments[2].speed_mph, 97869)

(***************************************************************************)
(* C15 as stated: the speed calculation raises nothing and emits one row   *)
(* per stop; every segment with sec_elapsed = 0 has an infinite speed, and *)
(* every segment with one negative and one positive elapsed value has a    *)
(* negative speed.                                                         *)
(***************************************************************************)
C15_ZeroSecondsInfinite ==
    pc # "start" =>
        /\ pc = "done"
        /\ Len(speed) = Len(df)
        /\ \A n \in 1..Len(speed) :
              LET row == speed[n]
              IN  /\ row.sec_elapsed = Finite(0, 1) => row.speed_mph.kind = "inf"
                  /\ ( /\ row.sec_elapsed.kind = "finite"
                       /\ row.meters_elapsed.kind = "finite"
                       /\ row.sec_elapsed.num * row.meters_elapsed.num < 0 ) =>
                        (row.speed_mph.kind = "finite" /\ row.speed_mph.num < 0)

(***************************************************************************)
(* C15 amended: the speed calculation raises nothing and emits one row per *)
(* stop; a segment with sec_elapsed = 0 has an infinite speed with the     *)
(* sign of meters_elapsed when meters_elapsed is not 0 and an undefined    *)
(* speed (NaN) when meters_elapsed is 0 too; a segment with one negative   *)
(* and one positive elapsed value has a negative speed.                    *)
(***************************************************************************)
C15_ZeroSecondsInfiniteOrNaN ==
    pc # "start" =>
        /\ pc = "done"
        /\ Len(speed) = Len(df)
        /\ \A n \in 1..Len(speed) :
              LET row == speed[n]
              IN  /\ (row.sec_elapsed = Finite(0, 1) /\ row.meters_elapsed.kind = "finite") =>
                        /\ row.meters_elapsed.num > 0 => row.speed_mph = PosInf
                        /\ row.meters_elapsed.num < 0 => row.speed_mph = NegInf
                        /\ row.meters_elapsed.num = 0 => row.speed_mph.kind = "nan"
                  /\ ( /\ row.sec_elapsed.kind = "finite"
                       /\ row.meters_elapsed.kind = "finite"
                       /\ row.sec_elapsed.num * row.meters_elapsed.num < 0 ) =>
                        (row.speed_mph.kind = "finite" /\ row.speed_mph.num < 0)

\* one trip with a segment of 500 m in 0 s and a segment of 0 m in 0 s
C15_Witness ==
    /\ pc = "done"
    /\ \E n \in 1..Len(speed) :
          /\ speed[n].sec_elapsed = Finite(0, 1)
          /\ speed[n].meters_elapsed = Finite(500, 1)
          /\ speed[n].speed_mph = PosInf
    /\ \E n \in 1..Len(speed) :
          /\ speed[n].sec_elapsed = Finite(0, 1)
          /\ speed[n].meters_elapsed = Finite(0, 1)
          /\ speed[n].speed_mph.kind = "nan"

C21_UnmarkedStopsKeepArrivalTime ==
    pc = "done" =>
        \A n \in 1..Len(df) :
            ( /\ df[n].trip_instance_key \in repair.trips_with_one_false
              /\ repair.monotonic[n] ) =>
                \E m \in 1..Len(repair.fixed_df) :
                    /\ repair.fixed_df[m].trip_instance_key = df[n].trip_instance_key
                    /\ repair.fixed_df[m].stop_sequence = df[n].stop_sequence
                    /\ repair.fixed_df[m].arrival_time = df[n].arrival_time

\* the batch that holds only the rows of trip `key` of the batch df, in
\* stop_sequence order
TripAlone(key) ==
    SelectSeq(sort_values(df), LAMBDA row : row.trip_instance_key = key)

\* the rows of trip `key` in a frame
RowsOfTrip(frame, key) ==
    SelectSeq(frame, LAMBDA row : row.trip_instance_key = key)

(***************************************************************************)
(* C17: the results for a trip depend only on the trip's own rows.  The    *)
(* batch df and the batch made of the rows of trip T alone hold the same   *)
(* rows for T, so the repair gives every stop of T the same monotonic flag *)
(* in both, the same output rows for T when it returns for both, and the   *)
(* speed calculation gives T the same segments in both.                    *)
(***************************************************************************)
C17_TripResultsIndependent ==
    pc # "start" =>
        \A key \in {df[n].trip_instance_key : n \in 1..Len(df)} :
            LET alone == enforce_monotonicity_and_interpolate_across_stops(TripAlone(key))
            IN  /\ \A n \in 1..Len(df) :
                      df[n].trip_instance_key = key =>
                          repair.monotonic[n] = alone.monotonic[df[n].stop_sequence]
                /\ (repair.raised = "" /\ alone.raised = "") =>
                      RowsOfTrip(repair.fixed_df, key) = alone.fixed_df
                /\ RowsOfTrip(calculate_speed_from_stop_arrivals(df), key)
                      = calculate_speed_from_stop_arrivals(TripAlone(key))

(***************************************************************************)
(* C22: for every pair of consecutive stops of a trip with valid arrival   *)
(* timestamps t1 and t2, sec_elapsed and the difference of the seconds the *)
(* monotonicity check tests equal the number of seconds from t1 to t2,     *)
(* also when t1 and t2 lie on different calendar days; the seconds value   *)
(* of a timestamp lies in 0..86399.                                        *)
(***************************************************************************)
C22_SecElapsedIsTrueSeconds ==
    pc = "done" =>
        \A n \in 1..Len(speed) :
            LET row == speed[n]
            IN  /\ row.arrival_time # NaT =>
                      /\ row.arrival_time_sec.kind = "finite"
                      /\ row.arrival_time_sec.den = 1
                      /\ row.arrival_time_sec.num \in 0..(SecondsPerDay - 1)
                      /\ convert_timestamp_to_seconds(row.arrival_time)
                            \in 0..(SecondsPerDay - 1)
                /\ ( /\ LaterStops(row) # {}
                     /\ row.arrival_time # NaT
                     /\ Successor(row).arrival_time # NaT ) =>
                      LET t1 == row.arrival_time
                          t2 == Successor(row).arrival_time
                      IN  /\ row.sec_elapsed = Finite(t2 - t1, 1)
                          /\ convert_timestamp_to_seconds(t2)
                                - convert_timestamp_to_seconds(t1) = t2 - t1

(***************************************************************************)
(* create_table.vp_projected_table and the direction of travel of stops    *)
(*                                                                         *)
(* A vp row is a record of trip_instance_key (the trip columns),           *)
(* location_timestamp_local and geometry; a stop row is a record of        *)
(* trip_instance_key, stop_sequence and geometry.                          *)
(***************************************************************************)
MaxPings == 3       \* a table has 1..MaxPings rows
MaxTick == 1        \* location_timestamp_local ranges over 0..MaxTick
MaxCoord == 1       \* coordinates of table rows range over 0..MaxCoord

TablePoints == [x : 0..MaxCoord, y : 0..MaxCoord]

\* the rows of a frame at the positions of `keep`, in frame order
RECURSIVE Subframe(_, _)
Subframe(frame, keep) ==
    IF keep = {} THEN <<>>
    ELSE LET last == CHOOSE n \in keep : \A m \in keep : m <= n
         IN  Append(Subframe(frame, keep \ {last}), frame[last])

\* get_calitp_table: df.drop_duplicates().reset_index(drop=True)
drop_duplicates(frame) ==
    Subframe(frame, {n \in 1..Len(frame) : \A m \in 1..(n - 1) : frame[m] # frame[n]})

\* sort_values("location_timestamp_local") with the default quicksort, which
\* is not stable: rows with equal timestamps come out in any order
sort_values_by_timestamp(frame) ==
    {[n \in 1..Len(frame) |-> frame[order[n]]] :
        order \in {o \in [1..Len(frame) -> 1..Len(frame)] :
                     /\ \A i, j \in 1..Len(frame) : i # j => o[i] # o[j]
                     /\ \A i \in 1..(Len(frame) - 1) :
                           frame[o[i]].location_timestamp_local
                             <= frame[o[i+1]].location_timestamp_local}}

\* the rows of a frame trip by trip, the trips in the order of their first
\* row, the rows of a trip in frame order
RECURSIVE GroupByFirstAppearance(_)
GroupByFirstAppearance(frame) ==
    IF frame = <<>> THEN <<>>
    ELSE SelectSeq(frame,
             LAMBDA row : row.trip_instance_key = frame[1].trip_instance_key)
           \o GroupByFirstAppearance(
                  SelectSeq(frame,
                      LAMBDA row : row.trip_instance_key # frame[1].trip_instance_key))

\* pd.merge(vp, trips_to_shape, on = rt_trip_group, how = "inner") with one
\* shape per trip: the vp rows of the trips that have a shape.  pandas
\* returns them in the order of the left frame, or (before pandas 2.2)
\* trip by trip; the result has a new index 0, 1, 2, ...
merge_inner(left, right) ==
    LET kept == SelectSeq(left, LAMBDA row : row.trip_instance_key \in right)
    IN  {kept, GroupByFirstAppearance(kept)}

\* groupby(trip_group).geometry.shift(1): the position of the row before
\* row n among the rows of its trip, 0 when row n is the first of its trip
shift_prior_ungrouped(frame, n) == n - 1

shift_prior(frame, n) ==
    LET earlier == {m \in 1..(n - 1) :
                      frame[m].trip_instance_key = frame[n].trip_instance_key}
    IN  IF earlier = {} THEN 0
        ELSE CHOOSE m \in earlier : \A k \in earlier : k <= m

\* np.vectorize(utils.cardinal_definition_rules)(geometry.x - prior.x,
\* geometry.y - prior.y); without a prior row the differences are NaN, every
\* comparison is false and the rules return Unknown
primary_direction(frame, n) ==
    LET prior == shift_prior(frame, n)
    IN  IF prior = 0 THEN "Unknown"
        ELSE cardinal_definition_rules(
                 frame[n].geometry.x - frame[prior].geometry.x,
                 frame[n].geometry.y - frame[prior].geometry.y)

\* vp_idx = gdf.index, the RangeIndex of the merged frame
gdf_index_within_trip(frame, n) ==
    Cardinality({m \in 1..(n - 1) :
                    frame[m].trip_instance_key = frame[n].trip_instance_key})

gdf_index(frame, n) == n - 1

\* vp_preprocessing on the merged table
vp_preprocessing_columns(frame) ==
    [n \in 1..Len(frame) |->
        [trip_instance_key |-> frame[n].trip_instance_key,
         location_timestamp_local |-> frame[n].location_timestamp_local,
         geometry |-> frame[n].geometry,
         vp_primary_direction |-> primary_direction(frame, n),
         vp_idx |-> gdf_index(frame, n)]]

\* vp_projected_table: the tables it can return for a vp file and the set
\* of trips that have a shape
vp_projected_table(vp_file, shape_trips) ==
    {vp_preprocessing_columns(merged) :
        merged \in UNION {merge_inner(sorted, shape_trips) :
                            sorted \in sort_values_by_timestamp(drop_duplicates(vp_file))}}

\* merge_stop_times_trips_shapes_stops: the merged stop rows in the order of
\* trip_group + ["stop_sequence"], with a new index
merge_stop_times_trips_shapes_stops(stop_times_df) == sort_values(stop_times_df)

\* stop_times_preprocessing: stop_primary_direction of every row
stop_times_preprocessing(frame) ==
    [n \in 1..Len(frame) |-> primary_direction(frame, n)]

\* condense_by_trip: the geometries of one trip's stops in stop_sequence order
condense_by_trip(frame, key) ==
    LET rows == SelectSeq(sort_values(frame), LAMBDA row : row.trip_instance_key = key)
    IN  [k \in 1..Len(rows) |-> rows[k].geometry]

\* utils.find_direction_of_travel on one trip's array of stop geometries
find_direction_of_travel(geometry) ==
    [k \in 1..Len(geometry) |->
        IF k = 1 THEN "Unknown"
        ELSE cardinal_definition_rules(geometry[k].x - geometry[k-1].x,
                                       geometry[k].y - geometry[k-1].y)]

\* the stop table with both direction columns: stop_primary_direction of
\* stop_times_preprocessing, and direction_of_travel, the entry of
\* find_direction_of_travel's array that explode and the merge on
\* (trip, stop_sequence) give to the row
stop_times_direction(stop_times_df) ==
    LET frame == merge_stop_times_trips_shapes_stops(stop_times_df)
    IN  [n \in 1..Len(frame) |->
            LET rank == Cardinality(
                            {m \in 1..Len(frame) :
                                /\ frame[m].trip_instance_key = frame[n].trip_instance_key
                                /\ frame[m].stop_sequence <= frame[n].stop_sequence})
            IN  [trip_instance_key |-> frame[n].trip_instance_key,
                 stop_sequence |-> frame[n].stop_sequence,
                 geometry |-> frame[n].geometry,
                 stop_primary_direction |-> stop_times_preprocessing(frame)[n],
                 direction_of_travel |->
                     find_direction_of_travel(
                         condense_by_trip(frame, frame[n].trip_instance_key))[rank]]]

\* a run builds the vp table from a vp file, or the stop table from a
\* stop_times file
InitTables ==
    /\ distance_east = 0
    /\ distance_north = 0
    /\ cardinal = NoResult
    /\ vp_geometry = <<>>
    /\ vp_direction_array = <<>>
    /\ vp_idx_array = <<>>
    /\ nn = NoResult
    /\ interp = NoResult
    /\ repair = NoResult
    /\ df = <<>>
    /\ reinterp = NoResult
    /\ speed = NoResult
    /\ \/ /\ \E n \in 1..MaxPings :
                vp \in [1..n -> [trip_instance_key : TripKeys,
                                 location_timestamp_local : 0..MaxTick,
                                 geometry : TablePoints]]
          /\ trips_to_shape \in {{1}, TripKeys}
          /\ stop_times = <<>>
       \/ /\ vp = <<>>
          /\ trips_to_shape = {}
          /\ \E na \in 1..MaxPings :
                \E nb \in 0..(MaxPings - na) :
                    \E points \in [1..(na + nb) -> TablePoints],
                       swap \in 0..(na + nb - 1) :
                        stop_times =
                            [k \in 1..(na + nb) |->
                                LET n == RowOrder(na + nb, swap)[k]
                                IN  [trip_instance_key |-> BatchKeys(na, nb)[n].trip_instance_key,
                                     stop_sequence |-> BatchKeys(na, nb)[n].stop_sequence,
                                     geometry |-> points[n]]]
    /\ gdf = NoResult
    /\ stops_projected = <<>>
    /\ check_df = NoResult
    /\ pc = "start"

VpProjectedTable ==
    /\ pc = "start"
    /\ vp # <<>>
    /\ pc' = "done"
    /\ gdf' \in vp_projected_table(vp, trips_to_shape)
    /\ UNCHANGED <<classifyVars, neighborVars, repairVars,
                   reinterp, speed, vp, trips_to_shape, stop_times, stops_projected,
                   check_df>>

StopTimesDirection ==
    /\ pc = "start"
    /\ stop_times # <<>>
    /\ pc' = "done"
    /\ gdf' = stop_times_direction(stop_times)
    /\ UNCHANGED <<classifyVars, neighborVars, repairVars,
                   reinterp, speed, vp, trips_to_shape, stop_times, stops_projected,
                   check_df>>

NextTables == VpProjectedTable \/ StopTimesDirection

SpecTables == InitTables /\ [][NextTables]_vars

(***************************************************************************)
(* C16: in the table built by vp_projected_table every vp row of a trip    *)
(* with a shape is present once, its vp_idx is >= 0 (so never the sentinel *)
(* -1), no two rows of the table share a vp_idx whatever their trips, and  *)
(* within a trip a vp with a later location timestamp has a larger vp_idx. *)
(***************************************************************************)
C16_VpIdxGlobalOrdinal ==
    (pc = "done" /\ vp # <<>>) =>
        /\ \A n \in 1..Len(vp) :
              vp[n].trip_instance_key \in trips_to_shape =>
                  \E m \in 1..Len(gdf) :
                      /\ gdf[m].trip_instance_key = vp[n].trip_instance_key
                      /\ gdf[m].location_timestamp_local = vp[n].location_timestamp_local
                      /\ gdf[m].geometry = vp[n].geometry
        /\ \A n \in 1..Len(gdf) :
              /\ gdf[n].vp_idx >= 0
              /\ gdf[n].vp_idx # -1
              /\ gdf[n].trip_instance_key \in trips_to_shape
        /\ \A n, m \in 1..Len(gdf) :
              /\ n # m => gdf[n].vp_idx # gdf[m].vp_idx
              /\ ( /\ gdf[n].trip_instance_key = gdf[m].trip_instance_key
                   /\ gdf[n].location_timestamp_local < gdf[m].location_timestamp_local ) =>
                    gdf[n].vp_idx < gdf[m].vp_idx

\* two trips interleaved in time: the vp of trip 1 get vp_idx 0 and 2, the
\* vp of trip 2 in between gets 1
C16_Witness ==
    /\ pc = "done"
    /\ vp # <<>>
    /\ Len(gdf) = 3
    /\ gdf[1].trip_instance_key = 1 /\ gdf[1].vp_idx = 0
    /\ gdf[2].trip_instance_key = 2 /\ gdf[2].vp_idx = 1
    /\ gdf[3].trip_instance_key = 1 /\ gdf[3].vp_idx = 2
    /\ gdf[1].location_timestamp_local < gdf[3].location_timestamp_local

\* the rows of the built table that belong to the trip of row n and precede
\* it: by vp_idx in the vp table, by stop_sequence in the stop table
PrecedingInTrip(n) ==
    {m \in 1..Len(gdf) :
        /\ gdf[m].trip_instance_key = gdf[n].trip_instance_key
        /\ IF vp # <<>> THEN gdf[m].vp_idx < gdf[n].vp_idx
           ELSE gdf[m].stop_sequence < gdf[n].stop_sequence}

\* the row that immediately precedes row n in its trip
ImmediatelyPreceding(n) ==
    CHOOSE m \in PrecedingInTrip(n) :
        \A k \in PrecedingInTrip(n) :
            IF vp # <<>> THEN gdf[k].vp_idx <= gdf[m].vp_idx
            ELSE gdf[k].stop_sequence <= gdf[m].stop_sequence

\* the direction of the displacement from row m to row n
DirectionFrom(m, n) ==
    cardinal_definition_rules(gdf[n].geometry.x - gdf[m].geometry.x,
                              gdf[n].geometry.y - gdf[m].geometry.y)

(***************************************************************************)
(* C18: the first vp of every trip and the first stop of every trip have   *)
(* direction Unknown; every later vp or stop has the direction of its      *)
(* displacement from the vp or stop that immediately precedes it in its    *)
(* own trip (no vp of the trip lies between them in time, no stop in       *)
(* stop_sequence), whatever rows of other trips lie in between.            *)
(***************************************************************************)
C18_DirectionFromPriorInTrip ==
    pc = "done" =>
        \A n \in 1..Len(gdf) :
            IF vp # <<>>
            THEN IF PrecedingInTrip(n) = {}
                 THEN gdf[n].vp_primary_direction = "Unknown"
                 ELSE LET prior == ImmediatelyPreceding(n)
                      IN  /\ gdf[n].vp_primary_direction = DirectionFrom(prior, n)
                          /\ gdf[prior].location_timestamp_local
                                <= gdf[n].location_timestamp_local
                          /\ \A k \in PrecedingInTrip(n) :
                                gdf[k].location_timestamp_local
                                  <= gdf[prior].location_timestamp_local
            ELSE IF PrecedingInTrip(n) = {}
                 THEN /\ gdf[n].stop_primary_direction = "Unknown"
                      /\ gdf[n].direction_of_travel = "Unknown"
                 ELSE LET prior == ImmediatelyPreceding(n)
                      IN  /\ gdf[n].stop_primary_direction = DirectionFrom(prior, n)
                          /\ gdf[n].direction_of_travel = DirectionFrom(prior, n)

\* a vp of trip 2 lies between two vp of trip 1: it is the first of its trip
\* although it moved away from the vp before it, and the second vp of trip 1
\* is classified against the first, not against the vp of trip 2
C18_Witness ==
    /\ pc = "done"
    /\ vp # <<>>
    /\ Len(gdf) = 3
    /\ gdf[1].trip_instance_key = 1
    /\ gdf[2].trip_instance_key = 2
    /\ gdf[3].trip_instance_key = 1
    /\ gdf[1].vp_primary_direction = "Unknown"
    /\ gdf[2].vp_primary_direction = "Unknown"
    /\ DirectionFrom(1, 2) # "Unknown"
    /\ gdf[3].vp_primary_direction = DirectionFrom(1, 3)
    /\ DirectionFrom(1, 3) # DirectionFrom(2, 3)

(***************************************************************************)
(* utils.monotonic_trips                                                   *)
(*                                                                         *)
(* stops_projected holds the stop rows it reads: records of                *)
(* trip_instance_key (the trip columns), stop_sequence and stop_meters.    *)
(***************************************************************************)
\* np.diff(x): the differences of consecutive values
np_diff(x) == [k \in 1..(Len(x) - 1) |-> x[k+1] - x[k]]

\* np.all(np.diff(x.stop_meters) > 0)
is_monotonic(stop_meters) ==
    \A k \in 1..Len(np_diff(stop_meters)) : np_diff(stop_meters)[k] > 0

\* the trips of a frame, in key order
RECURSIVE GroupKeys(_, _)
GroupKeys(frame, key) ==
    IF key \notin TripKeys THEN <<>>
    ELSE (IF \E n \in 1..Len(frame) : frame[n].trip_instance_key = key
          THEN <<key>> ELSE <<>>) \o GroupKeys(frame, key + 1)

\* monotonic_trips: one row per trip, with the trip's stop_meters listed in
\* stop_sequence order and tested
monotonic_trips(frame) ==
    LET sorted == sort_values(frame)
        keys == GroupKeys(sorted, 1)
    IN  [g \in 1..Len(keys) |->
            LET rows == SelectSeq(sorted, LAMBDA row : row.trip_instance_key = keys[g])
            IN  [trip_instance_key |-> keys[g],
                 is_monotonic |-> is_monotonic([k \in 1..Len(rows) |-> rows[k].stop_meters])]]

InitMonotonicTrips ==
    /\ distance_east = 0
    /\ distance_north = 0
    /\ cardinal = NoResult
    /\ vp_geometry = <<>>
    /\ vp_direction_array = <<>>
    /\ vp_idx_array = <<>>
    /\ nn = NoResult
    /\ interp = NoResult
    /\ repair = NoResult
    /\ df = <<>>
    /\ reinterp = NoResult
    /\ speed = NoResult
    /\ vp = <<>>
    /\ trips_to_shape = {}
    /\ stop_times = <<>>
    /\ gdf = NoResult
    /\ \E na \in 1..MaxPings :
          \E nb \in 0..(MaxPings - na) :
              \E meters \in [1..(na + nb) -> 0..MaxPosition],
                 swap \in 0..(na + nb - 1) :
                  stops_projected =
                      [k \in 1..(na + nb) |->
                          LET n == RowOrder(na + nb, swap)[k]
                          IN  [trip_instance_key |-> BatchKeys(na, nb)[n].trip_instance_key,
                               stop_sequence |-> BatchKeys(na, nb)[n].stop_sequence,
                               stop_meters |-> meters[n]]]
    /\ check_df = NoResult
    /\ pc = "start"

MonotonicTrips ==
    /\ pc = "start"
    /\ pc' = "done"
    /\ check_df' = monotonic_trips(stops_projected)
    /\ UNCHANGED <<classifyVars, neighborVars, repairVars,
                   reinterp, speed, vp, trips_to_shape, stop_times, gdf,
                   stops_projected>>

NextMonotonicTrips == MonotonicTrips

SpecMonotonicTrips == InitMonotonicTrips /\ [][NextMonotonicTrips]_vars

\* the stop_meters of the stops of trip `key`, in stop_sequence order
StopMetersOfTrip(key) ==
    LET rows == SelectSeq(sort_values(stops_projected),
                    LAMBDA row : row.trip_instance_key = key)
    IN  [k \in 1..Len(rows) |-> rows[k].stop_meters]

(***************************************************************************)
(* C19: a trip is reported is_monotonic exactly when its stop_meters are   *)
(* non-decreasing in stop_sequence order: equal consecutive stop_meters    *)
(* are not a violation, a decrease is.                                     *)
(***************************************************************************)
C19_MonotonicIffNonDecreasing ==
    pc = "done" =>
        \A g \in 1..Len(check_df) :
            check_df[g].is_monotonic <=>
                LET x == StopMetersOfTrip(check_df[g].trip_instance_key)
                IN  \A k \in 1..(Len(x) - 1) : x[k] <= x[k+1]

====
